---- MODULE Spec2Model ----
(***************************************************************************)
(* The two-pass assembler of the repository, in its two variants:          *)
(*   src/assembler.py         (class Assembler: first_pass, second_pass,   *)
(*                             assemble)                                   *)
(*   src/assembler-stage2.py  (class Assembler: _first_pass, _second_pass, *)
(*                             assemble, get_machine_code)                 *)
(* A source line is a sequence of one-character strings, so that the       *)
(* lexing the code does (comment cut, strip, split, upper, int) is         *)
(* computed, not assumed.  One assembler object is modelled; `program`     *)
(* says which of the two files it was built from.                          *)
(***************************************************************************)
EXTENDS Integers, Sequences, FiniteSets, TLC

(***************************************************************************)
(* Bounds of the model.                                                    *)
(***************************************************************************)
\* Longest source (in lines) drawn from Corpus.
MaxLines == 3

(***************************************************************************)
(* Characters and the Python string built-ins the assembler calls.         *)
(* The alphabet is ASCII letters, digits, space and , : ; -                *)
(***************************************************************************)
LowerCase == <<"a","b","c","d","e","f","g","h","i","j","k","l","m",
               "n","o","p","q","r","s","t","u","v","w","x","y","z">>
UpperCase == <<"A","B","C","D","E","F","G","H","I","J","K","L","M",
               "N","O","P","Q","R","S","T","U","V","W","X","Y","Z">>
Digits == <<"0","1","2","3","4","5","6","7","8","9">>

Range(t) == { t[k] : k \in DOMAIN t }
IndexOf(c, t) == CHOOSE k \in DOMAIN t : t[k] = c
IsLetter(c) == c \in Range(LowerCase) \cup Range(UpperCase)
IsDigitChar(c) == c \in Range(Digits)

\* str.upper(), one character
UpperChar(c) == IF c \in Range(LowerCase) THEN UpperCase[IndexOf(c, LowerCase)] ELSE c
\* str.upper()
upper(s) == [k \in 1..Len(s) |-> UpperChar(s[k])]

\* `c in s`
Contains(s, c) == \E k \in 1..Len(s) : s[k] = c
\* s.split(c)[0] and s[:s.index(c)]: the text before the first c (all of s without one)
Before(s, c) ==
  IF Contains(s, c)
  THEN SubSeq(s, 1, (CHOOSE k \in 1..Len(s) : s[k] = c /\ \A j \in 1..(k-1) : s[j] # c) - 1)
  ELSE s

RECURSIVE lstrip(_)
lstrip(s) == IF s # <<>> /\ s[1] = " " THEN lstrip(Tail(s)) ELSE s
RECURSIVE rstrip(_)
rstrip(s) == IF s # <<>> /\ s[Len(s)] = " " THEN rstrip(SubSeq(s, 1, Len(s) - 1)) ELSE s
\* str.strip()
strip(s) == rstrip(lstrip(s))

\* str.rstrip(',')
RECURSIVE rstrip_comma(_)
rstrip_comma(s) ==
  IF s # <<>> /\ s[Len(s)] = "," THEN rstrip_comma(SubSeq(s, 1, Len(s) - 1)) ELSE s

\* str.replace(',', ' ')
replace_comma(s) == [k \in 1..Len(s) |-> IF s[k] = "," THEN " " ELSE s[k]]

\* str.split(): the maximal runs of non-space characters
RECURSIVE split(_)
split(s) ==
  LET t == lstrip(s)
      w == Before(t, " ")
  IN IF t = <<>> THEN <<>>
     ELSE <<w>> \o split(SubSeq(t, Len(w) + 1, Len(t)))

\* str.endswith(':')
endswith_colon(s) == s # <<>> /\ s[Len(s)] = ":"

\* str.startswith('0x')
startswith_0x(s) == Len(s) >= 2 /\ s[1] = "0" /\ s[2] = "x"

\* str.isdigit()
isdigit(s) == s # <<>> /\ \A k \in 1..Len(s) : IsDigitChar(s[k])

\* str.isidentifier()
isidentifier(s) ==
  /\ s # <<>>
  /\ IsLetter(s[1])
  /\ \A k \in 1..Len(s) : IsLetter(s[k]) \/ IsDigitChar(s[k])

\* The value of one digit in bases up to 16; 16 for a character that is no digit.
DigitValue(c) ==
  IF IsDigitChar(c) THEN IndexOf(c, Digits) - 1
  ELSE IF c \in Range(LowerCase) /\ IndexOf(c, LowerCase) <= 6 THEN 9 + IndexOf(c, LowerCase)
  ELSE IF c \in Range(UpperCase) /\ IndexOf(c, UpperCase) <= 6 THEN 9 + IndexOf(c, UpperCase)
  ELSE 16
AllDigitsIn(s, base) == s # <<>> /\ \A k \in 1..Len(s) : DigitValue(s[k]) < base
RECURSIVE BaseValue(_, _)
BaseValue(s, base) ==
  IF s = <<>> THEN 0
  ELSE BaseValue(SubSeq(s, 1, Len(s) - 1), base) * base + DigitValue(s[Len(s)])

ValueError == [ok |-> FALSE, val |-> 0]
Parsed(n) == [ok |-> TRUE, val |-> n]
\* int() ignores surrounding whitespace and reads an optional sign
Negative(s) == strip(s) # <<>> /\ strip(s)[1] = "-"
Signed(s, n) == IF Negative(s) THEN Parsed(0 - n) ELSE Parsed(n)
Unsigned(s) == IF Negative(s) THEN Tail(strip(s)) ELSE strip(s)
HasPrefix(s, lo, up) == Len(s) >= 2 /\ s[1] = "0" /\ s[2] \in {lo, up}

\* int(s): an optional sign and decimal digits
int10(s) ==
  LET b == Unsigned(s)
  IN IF AllDigitsIn(b, 10) THEN Signed(s, BaseValue(b, 10)) ELSE ValueError

\* int(s, 16): an optional sign, an optional 0x, hexadecimal digits
int16(s) ==
  LET b == Unsigned(s)
      d == IF HasPrefix(b, "x", "X") THEN SubSeq(b, 3, Len(b)) ELSE b
  IN IF AllDigitsIn(d, 16) THEN Signed(s, BaseValue(d, 16)) ELSE ValueError

\* int(s, 0): the base is read off the literal's prefix; a decimal literal
\* has no leading zero unless it is all zeros
int0(s) ==
  LET b == Unsigned(s)
      d == SubSeq(b, 3, Len(b))
  IN IF HasPrefix(b, "x", "X")
     THEN (IF AllDigitsIn(d, 16) THEN Signed(s, BaseValue(d, 16)) ELSE ValueError)
     ELSE IF HasPrefix(b, "b", "B")
     THEN (IF AllDigitsIn(d, 2) THEN Signed(s, BaseValue(d, 2)) ELSE ValueError)
     ELSE IF HasPrefix(b, "o", "O")
     THEN (IF AllDigitsIn(d, 8) THEN Signed(s, BaseValue(d, 8)) ELSE ValueError)
     ELSE IF AllDigitsIn(b, 10) /\ (b[1] # "0" \/ \A k \in 1..Len(b) : b[k] = "0")
     THEN Signed(s, BaseValue(b, 10))
     ELSE ValueError

(***************************************************************************)
(* The instruction set: the tables both constructors build.                *)
(***************************************************************************)
LOAD  == <<"L","O","A","D">>
STORE == <<"S","T","O","R","E">>
ADD   == <<"A","D","D">>
SUB   == <<"S","U","B">>
MUL   == <<"M","U","L">>
DIV   == <<"D","I","V">>
MOD   == <<"M","O","D">>
JMP   == <<"J","M","P">>
JZ    == <<"J","Z">>
JNZ   == <<"J","N","Z">>
CMP   == <<"C","M","P">>
CALL  == <<"C","A","L","L">>
RET   == <<"R","E","T">>
PUSH  == <<"P","U","S","H">>
POP   == <<"P","O","P">>
HALT  == <<"H","A","L","T">>

commands ==
  (LOAD :> 1) @@ (STORE :> 2) @@ (ADD :> 3) @@ (SUB :> 4) @@ (MUL :> 5) @@
  (DIV :> 6) @@ (MOD :> 7) @@ (JMP :> 8) @@ (JZ :> 9) @@ (JNZ :> 10) @@
  (CMP :> 11) @@ (CALL :> 12) @@ (RET :> 13) @@ (PUSH :> 14) @@ (POP :> 15) @@
  (HALT :> 16)

registers == (<<"A">> :> 0) @@ (<<"B">> :> 1) @@ (<<"C">> :> 2) @@ (<<"D">> :> 3)

(***************************************************************************)
(* The sources the model assembles.                                        *)
(***************************************************************************)
\* The lines a source is drawn from.
Corpus == {
  <<"H","A","L","T">>,
  <<"L",":">>,
  <<"J","M","P"," ","L">>,
  <<"J","M","P"," ","3","0","0">>,
  <<"P","U","S","H"," ","A"," ","B">>,
  <<"L","O","A","D"," ","A",","," ","2","5","6">>,
  <<"L","O","A","D"," ","A"," ","-","1">>,
  <<"L","O","A","D"," ","A">>,
  <<"A","D","D"," ","A",","," ","x">>,
  <<"S","T","O","R","E"," ","A"," ","3","0","0">>,
  <<"F","O","O"," ","A",","," ","1">>,
  <<"1",":">>,
  <<"S","T","O","R","E"," ","A"," ","6","5","5","3","6">>,
  <<",">>
}

\* The forward-reference scenario of the specification (section 8).
ForwardReference == <<
  <<"S","T","A","R","T",":">>,
  <<"L","O","A","D"," ","A"," ","5">>,
  <<"L","O","A","D"," ","B"," ","1","0">>,
  <<"A","D","D"," ","A"," ","B">>,
  <<"J","Z"," ","E","N","D">>,
  <<"J","M","P"," ","S","T","A","R","T">>,
  <<"E","N","D",":">>,
  <<"H","A","L","T">> >>

RECURSIVE SeqsUpTo(_, _)
SeqsUpTo(S, n) ==
  IF n = 0 THEN { <<>> }
  ELSE LET shorter == SeqsUpTo(S, n - 1)
       IN shorter \cup { Append(p, l) : p \in shorter, l \in S }

\* The line with nothing on it.
EmptyLine == << >>

\* source_code.split('\n') of assembler.py, on the text the lines of src
\* make when joined by '\n': never an empty list, the empty text gives the
\* one empty line.
split_newline(src) == IF src = << >> THEN << EmptyLine >> ELSE src

\* Every line of every source.
AllLines == Corpus \cup Range(ForwardReference) \cup { EmptyLine }

\* Both passes of both files: the comment cut off (line[:line.index(';')],
\* line.split(';')[0]), then strip()
CodeOf(raw) == strip(Before(raw, ";"))

\* line.split() of _first_pass, first_pass and second_pass
PartsOf(raw) == split(CodeOf(raw))

\* _second_pass: the comment cut off again, commas replaced by spaces,
\* strip() and split()
Stage2PartsOf(raw) == split(strip(replace_comma(Before(CodeOf(raw), ";"))))

\* The three, computed once per line.
Code == [l \in AllLines |-> CodeOf(l)]
Parts == [l \in AllLines |-> PartsOf(l)]
Stage2Parts == [l \in AllLines |-> Stage2PartsOf(l)]

\* The sources handed to assemble.
Sources == SeqsUpTo(Corpus, MaxLines) \cup { ForwardReference }

(***************************************************************************)
(* The assembler object and the position of the running assemble call.     *)
(***************************************************************************)
VARIABLES
  program,       \* "assembler" (src/assembler.py) or "stage2" (src/assembler-stage2.py)
  lines,         \* the source lines of the current assemble call
  pc,            \* "ready", "first", "second", "done" or "exited"
  i,             \* line_num of the pass's loop
  address,       \* the local `address` of _first_pass / _second_pass (stage2)
  instructions,  \* self.instructions
  labels,        \* self.labels
  errors,        \* self.errors
  warnings,      \* self.warnings (assembler.py)
  result,        \* what assemble gave: "none", "True", "False", "returned", "exit1"
  reused,        \* TRUE once a second assemble call was made on the object
  snap           \* what the first call left, kept when the second starts

vars == <<program, lines, pc, i, address, instructions, labels, errors,
          warnings, result, reused, snap>>

NoLabels == [k \in {} |-> 0]
NoSnap == [lines |-> <<>>, code |-> <<>>, labels |-> NoLabels, errors |-> <<>>,
           warnings |-> <<>>, result |-> "none"]

\* d[k] = v on a dict
SetItem(d, k, v) == [x \in DOMAIN d \cup {k} |-> IF x = k THEN v ELSE d[x]]

\* One entry of self.errors / self.warnings: "Строка {line_num}: ..." and the
\* message's kind.
Message(line_num, msg) == [line |-> line_num, msg |-> msg]

\* Assembler.__init__ of either file
Init ==
  /\ program \in {"assembler", "stage2"}
  /\ lines = <<>>
  /\ pc = "ready"
  /\ i = 0
  /\ address = 0
  /\ instructions = <<>>
  /\ labels = NoLabels
  /\ errors = <<>>
  /\ warnings = <<>>
  /\ result = "none"
  /\ reused = FALSE
  /\ snap = NoSnap

(***************************************************************************)
(* src/assembler-stage2.py                                                 *)
(***************************************************************************)
\* get_machine_code: the opcode and the operands of every record, in order
RECURSIVE get_machine_code(_)
get_machine_code(instrs) ==
  IF instrs = <<>> THEN <<>>
  ELSE <<instrs[1].opcode>> \o instrs[1].operands \o get_machine_code(Tail(instrs))

\* The bytes the object holds: get_machine_code() in stage2, self.instructions
\* in assembler.py.
MachineCode == IF program = "stage2" THEN get_machine_code(instructions) ELSE instructions

\* What one finished call left behind.
Outcome == [lines |-> lines, code |-> MachineCode, labels |-> labels,
            errors |-> errors, warnings |-> warnings, result |-> result]

\* The sources of a second call on the same object: the same text again, or
\* the one-line source HALT.
SecondSources == { lines, << HALT >> }

\* assemble, up to the call of _first_pass (nothing of the object is reset)
stage2_assemble ==
  /\ program = "stage2"
  /\ \/ pc = "ready" /\ UNCHANGED <<reused, snap>> /\ \E src \in Sources : lines' = src
     \/ /\ pc = "done" /\ ~reused
        /\ reused' = TRUE
        /\ snap' = Outcome
        /\ \E src \in SecondSources : lines' = src
  /\ pc' = "first"
  /\ i' = 1
  /\ address' = 0
  /\ result' = "none"
  /\ UNCHANGED <<program, instructions, labels, errors, warnings>>

\* A first pass that counts the bytes the second pass really emits
\* (2 for a jump or call, 4 for STORE).
FirstPassWidthAsEncoded(command) ==
  IF command \notin DOMAIN commands THEN 0
  ELSE IF command = HALT \/ command = RET THEN 1
  ELSE IF command \in {PUSH, POP, JMP, JZ, JNZ, CALL} THEN 2
  ELSE IF command = STORE THEN 4
  ELSE 3

\* The bytes _first_pass counts for a command
FirstPassWidth(command) ==
  IF command \notin DOMAIN commands THEN 0
  ELSE IF command = HALT \/ command = RET THEN 1
  ELSE IF command \in {PUSH, POP} THEN 2
  ELSE 3

\* _first_pass, one iteration of its loop
stage2_first_pass ==
  /\ program = "stage2" /\ pc = "first" /\ i <= Len(lines)
  /\ LET line == Code[lines[i]]
     IN IF line = <<>>
        THEN UNCHANGED <<labels, address>>
        ELSE IF Contains(line, ":")
        THEN /\ labels' = SetItem(labels, strip(Before(line, ":")), address)
             /\ UNCHANGED address
        ELSE /\ address' = address + FirstPassWidth(upper(Parts[lines[i]][1]))
             /\ UNCHANGED labels
  /\ i' = i + 1
  /\ UNCHANGED <<program, lines, pc, instructions, errors, warnings, result, reused, snap>>

\* A _second_pass that goes on from the address _first_pass stopped at,
\* with no `address = 0` of its own before the loop.
stage2_call_second_pass_keeping_address ==
  /\ program = "stage2" /\ pc = "first" /\ i > Len(lines)
  /\ pc' = "second"
  /\ i' = 1
  /\ UNCHANGED <<program, lines, address, instructions, labels, errors, warnings, result,
                 reused, snap>>

\* assemble: _first_pass has returned, _second_pass is called
stage2_call_second_pass ==
  /\ program = "stage2" /\ pc = "first" /\ i > Len(lines)
  /\ pc' = "second"
  /\ i' = 1
  /\ address' = 0
  /\ UNCHANGED <<program, lines, instructions, labels, errors, warnings, result, reused, snap>>

Encoded(operands) == [err |-> "", operands |-> operands]
Rejected(msg) == [err |-> msg, operands |-> <<>>]

\* The second operand of ADD..MOD and LOAD: a register's number or a literal
RegOrImmediate(tok) ==
  IF upper(tok) \in DOMAIN registers THEN Parsed(registers[upper(tok)])
  ELSE IF startswith_0x(tok) THEN int16(tok)
  ELSE int10(tok)

\* The address operand of STORE
WideAddress(tok) == IF startswith_0x(tok) THEN int16(tok) ELSE int10(tok)

\* The low and the high byte of a STORE address
LittleEndian(addr) == << addr % 256, (addr \div 256) % 256 >>

\* _second_pass, the operands of one command: the try block
Operands(command, parts, labs) ==
  IF command = HALT \/ command = RET THEN Encoded(<<>>)
  ELSE IF command \in {PUSH, POP} THEN
    IF Len(parts) > 1 /\ upper(parts[2]) \in DOMAIN registers
    THEN Encoded(<<registers[upper(parts[2])]>>)
    ELSE Rejected("BadRegister")
  ELSE IF command \in {JMP, JZ, JNZ, CALL} THEN
    IF Len(parts) <= 1 THEN Rejected("NoLabel")
    ELSE IF parts[2] \in DOMAIN labs THEN Encoded(<<labs[parts[2]]>>)
    ELSE IF isdigit(parts[2]) THEN Encoded(<<int10(parts[2]).val>>)
    ELSE Rejected("UnknownLabel")
  ELSE IF command = CMP THEN
    IF Len(parts) < 3 THEN Rejected("CmpNeedsTwoRegisters")
    ELSE IF upper(parts[2]) \notin DOMAIN registers \/ upper(parts[3]) \notin DOMAIN registers
    THEN Rejected("CmpBadRegisters")
    ELSE Encoded(<<registers[upper(parts[2])], registers[upper(parts[3])]>>)
  ELSE IF command \in {ADD, SUB, MUL, DIV, MOD} THEN
    IF Len(parts) < 3 THEN Rejected("NeedsTwoOperands")
    ELSE IF upper(parts[2]) \notin DOMAIN registers THEN Rejected("BadRegisterFor")
    ELSE LET op2 == RegOrImmediate(parts[3])
         IN IF ~op2.ok THEN Rejected("ParseError")
            ELSE IF ~(0 <= op2.val /\ op2.val <= 255) THEN Rejected("OperandOutOfRange")
            ELSE Encoded(<<registers[upper(parts[2])], op2.val>>)
  ELSE IF command = LOAD THEN
    IF Len(parts) < 3 THEN Rejected("LoadNeedsTwoOperands")
    ELSE IF upper(parts[2]) \notin DOMAIN registers THEN Rejected("BadRegister")
    ELSE LET value == RegOrImmediate(parts[3])
         IN IF ~value.ok THEN Rejected("ParseError")
            ELSE IF ~(0 <= value.val /\ value.val <= 255) THEN Rejected("ValueOutOfRange")
            ELSE Encoded(<<registers[upper(parts[2])], value.val>>)
  ELSE \* STORE
    IF Len(parts) < 3 THEN Rejected("StoreNeedsTwoOperands")
    ELSE IF upper(parts[2]) \notin DOMAIN registers THEN Rejected("BadRegister")
    ELSE LET addr == WideAddress(parts[3])
         IN IF ~addr.ok THEN Rejected("ParseError")
            ELSE IF ~(0 <= addr.val /\ addr.val <= 65535) THEN Rejected("AddressOutOfRange")
            ELSE Encoded(<<registers[upper(parts[2])]>> \o LittleEndian(addr.val))

\* A loop that also passes over a line whose command it does not know, as
\* second_pass of assembler.py does, with no error.
Stage2SkippedWithUnknown(raw) ==
  LET line == Code[raw]
  IN \/ line = <<>> \/ Contains(line, ":") \/ Stage2Parts[raw] = <<>>
     \/ upper(Stage2Parts[raw][1]) \notin DOMAIN commands

\* _second_pass: whether the loop skips the line before parsing it
Stage2Skipped(raw) ==
  LET line == Code[raw]
  IN line = <<>> \/ Contains(line, ":") \/ Stage2Parts[raw] = <<>>

\* _second_pass, one iteration of its loop
stage2_second_pass ==
  /\ program = "stage2" /\ pc = "second" /\ i <= Len(lines)
  /\ IF Stage2Skipped(lines[i])
     THEN UNCHANGED <<instructions, errors, address>>
     ELSE LET parts == Stage2Parts[lines[i]]
              command == upper(parts[1])
          IN IF command \notin DOMAIN commands
             THEN /\ errors' = Append(errors, Message(i, "UnknownCommand"))
                  /\ UNCHANGED <<instructions, address>>
             ELSE LET enc == Operands(command, parts, labels)
                  IN IF enc.err # ""
                     THEN /\ errors' = Append(errors, Message(i, enc.err))
                          /\ UNCHANGED <<instructions, address>>
                     ELSE /\ instructions' = Append(instructions,
                                [mnemonic |-> command, opcode |-> commands[command],
                                 operands |-> enc.operands, line |-> i,
                                 address |-> address])
                          /\ address' = address + 1 + Len(enc.operands)
                          /\ UNCHANGED errors
  /\ i' = i + 1
  /\ UNCHANGED <<program, lines, pc, labels, warnings, result, reused, snap>>

\* assemble: _second_pass has returned; sys.exit(1) when self.errors is not empty
stage2_finish ==
  /\ program = "stage2" /\ pc = "second" /\ i > Len(lines)
  /\ IF errors # <<>>
     THEN pc' = "exited" /\ result' = "exit1"
     ELSE pc' = "done" /\ result' = "returned"
  /\ UNCHANGED <<program, lines, i, address, instructions, labels, errors, warnings,
                 reused, snap>>

\* get_statistics: reads self.instructions and self.labels, returns the
\* counts and the label table; assigns nothing
get_statistics ==
  /\ program = "stage2" /\ pc = "done"
  /\ UNCHANGED vars

(***************************************************************************)
(* src/assembler.py                                                        *)
(***************************************************************************)
\* is_valid_number
is_valid_number(s) == int0(s).ok

\* is_valid_identifier
is_valid_identifier(s) == isidentifier(s) /\ ~(upper(s) \in DOMAIN commands)

\* assemble, up to the call of first_pass: only self.instructions is reset
assemble ==
  /\ program = "assembler"
  /\ \/ /\ pc = "ready" /\ UNCHANGED <<reused, snap>>
        /\ \E src \in Sources : lines' = split_newline(src)
     \/ /\ pc = "done" /\ ~reused
        /\ reused' = TRUE
        /\ snap' = Outcome
        /\ \E src \in SecondSources : lines' = split_newline(src)
  /\ instructions' = <<>>
  /\ pc' = "first"
  /\ i' = 1
  /\ result' = "none"
  /\ UNCHANGED <<program, address, labels, errors, warnings>>

\* first_pass: what one iteration of its loop does to the object; `failed`
\* is the iteration's `return False`
FirstPassLine(raw, line_num, instrs, labs, errs) ==
  LET line == Code[raw]
      label == strip(SubSeq(line, 1, Len(line) - 1))
      stay == [instructions |-> instrs, labels |-> labs, errors |-> errs, failed |-> FALSE]
  IN IF line = <<>> THEN stay
     ELSE IF endswith_colon(line)
     THEN IF ~is_valid_identifier(label)
          THEN [stay EXCEPT !.errors = Append(errs, Message(line_num, "BadLabelName")),
                            !.failed = TRUE]
          ELSE IF label \in DOMAIN labs
          THEN [stay EXCEPT !.errors = Append(errs, Message(line_num, "LabelAlreadyDefined")),
                            !.failed = TRUE]
          ELSE [stay EXCEPT !.labels = SetItem(labs, label, Len(instrs))]
     ELSE IF upper(Parts[raw][1]) \notin DOMAIN commands
     THEN [stay EXCEPT !.errors = Append(errs, Message(line_num, "UnknownCommand")),
                       !.failed = TRUE]
     ELSE [stay EXCEPT !.instructions = Append(instrs, 0)]

\* first_pass, one iteration of its loop; on `return False` assemble returns False
first_pass ==
  /\ program = "assembler" /\ pc = "first" /\ i <= Len(lines)
  /\ LET r == FirstPassLine(lines[i], i, instructions, labels, errors)
     IN /\ instructions' = r.instructions
        /\ labels' = r.labels
        /\ errors' = r.errors
        /\ IF r.failed
           THEN pc' = "done" /\ result' = "False" /\ UNCHANGED i
           ELSE i' = i + 1 /\ UNCHANGED <<pc, result>>
  /\ UNCHANGED <<program, lines, address, warnings, reused, snap>>

\* A second_pass that empties the label table along with the instructions.
call_second_pass_clearing_labels ==
  /\ program = "assembler" /\ pc = "first" /\ i > Len(lines)
  /\ instructions' = <<>>
  /\ labels' = NoLabels
  /\ pc' = "second"
  /\ i' = 1
  /\ UNCHANGED <<program, lines, address, errors, warnings, result, reused, snap>>

\* assemble: first_pass returned True; self.instructions is emptied (by
\* assemble and again by second_pass) and second_pass starts
call_second_pass ==
  /\ program = "assembler" /\ pc = "first" /\ i > Len(lines)
  /\ instructions' = <<>>
  /\ pc' = "second"
  /\ i' = 1
  /\ UNCHANGED <<program, lines, address, labels, errors, warnings, result, reused, snap>>

\* second_pass: the loop over the operands of one line; `failed` is its
\* `return False`
RECURSIVE OperandLoop(_, _, _, _)
OperandLoop(operands, line_num, labs, acc) ==
  IF operands = <<>> THEN acc
  ELSE LET operand_clean == strip(rstrip_comma(operands[1]))
       IN IF operand_clean \in DOMAIN labs
          THEN OperandLoop(Tail(operands), line_num, labs,
                 [acc EXCEPT !.instructions = Append(@, labs[operand_clean])])
          ELSE IF operand_clean \in DOMAIN registers
          THEN OperandLoop(Tail(operands), line_num, labs,
                 [acc EXCEPT !.instructions = Append(@, registers[operand_clean])])
          ELSE IF is_valid_number(operand_clean)
          THEN LET val == int0(operand_clean).val
               IN OperandLoop(Tail(operands), line_num, labs,
                    [acc EXCEPT !.instructions = Append(@, val % 256),
                                !.warnings = IF val > 255
                                             THEN Append(@, Message(line_num, "Truncated"))
                                             ELSE @])
          ELSE [acc EXCEPT !.errors = Append(@, Message(line_num, "BadOperand")),
                           !.failed = TRUE]

\* second_pass: what one iteration of its loop does to the object
SecondPassLine(raw, line_num, instrs, labs, errs, warns) ==
  LET line == Code[raw]
      parts == Parts[raw]
      cmd == upper(parts[1])
      stay == [instructions |-> instrs, errors |-> errs, warnings |-> warns,
               failed |-> FALSE]
  IN IF line = <<>> \/ endswith_colon(line) THEN stay
     ELSE IF cmd \notin DOMAIN commands THEN stay
     ELSE OperandLoop(Tail(parts), line_num, labs,
            [stay EXCEPT !.instructions = Append(instrs, commands[cmd])])

\* second_pass, one iteration of its loop; on `return False` assemble returns False
second_pass ==
  /\ program = "assembler" /\ pc = "second" /\ i <= Len(lines)
  /\ LET r == SecondPassLine(lines[i], i, instructions, labels, errors, warnings)
     IN /\ instructions' = r.instructions
        /\ errors' = r.errors
        /\ warnings' = r.warnings
        /\ IF r.failed
           THEN pc' = "done" /\ result' = "False" /\ UNCHANGED i
           ELSE i' = i + 1 /\ UNCHANGED <<pc, result>>
  /\ UNCHANGED <<program, lines, address, labels, reused, snap>>

\* assemble: second_pass returned True, assemble returns True
finish ==
  /\ program = "assembler" /\ pc = "second" /\ i > Len(lines)
  /\ pc' = "done"
  /\ result' = "True"
  /\ UNCHANGED <<program, lines, i, address, instructions, labels, errors, warnings,
                 reused, snap>>

\* get_detailed_output: formats self.instructions, self.labels and
\* self.warnings into a string; assigns nothing
get_detailed_output ==
  /\ program = "assembler" /\ pc = "done" /\ result = "True"
  /\ UNCHANGED vars

(***************************************************************************)
(* The specification.                                                      *)
(***************************************************************************)
Next ==
  \/ assemble
  \/ first_pass
  \/ call_second_pass
  \/ second_pass
  \/ finish
  \/ stage2_assemble
  \/ stage2_first_pass
  \/ stage2_call_second_pass
  \/ stage2_second_pass
  \/ stage2_finish
  \/ get_detailed_output
  \/ get_statistics

Spec == Init /\ [][Next]_vars

(***************************************************************************)
(* What the claims speak of.                                               *)
(***************************************************************************)
\* An assemble call has ended.
Finished == pc \in {"done", "exited"}
\* The first call on a new object has ended.
FreshRun == Finished /\ ~reused
\* assemble reported success.
Succeeded == result \in {"True", "returned"}

\* The specification's reading of line k of the source (section 4.1): the
\* comment cut, commas as spaces, a label declaration ends in ':'.
LineNumbers == 1..Len(lines)
Tokens(k) == Stage2Parts[lines[k]]
IsLabelLine(k) == endswith_colon(Code[lines[k]])
DeclaredName(k) == strip(SubSeq(Code[lines[k]], 1, Len(Code[lines[k]]) - 1))
IsInstructionLine(k) == ~IsLabelLine(k) /\ Tokens(k) # <<>>
Mnemonic(k) == upper(Tokens(k)[1])
WellFormedLabel(k) ==
  IsLabelLine(k) /\ isidentifier(DeclaredName(k)) /\ DeclaredName(k) \notin DOMAIN commands

\* The specification's operand grammars (section 3): bytes and operands
\* per mnemonic.
GrammarWidth(m) ==
  IF m \in {HALT, RET} THEN 1
  ELSE IF m \in {PUSH, POP, JMP, JZ, JNZ, CALL} THEN 2
  ELSE IF m = STORE THEN 4
  ELSE 3
GrammarArity(m) ==
  IF m \in {HALT, RET} THEN 0
  ELSE IF m \in {PUSH, POP, JMP, JZ, JNZ, CALL} THEN 1
  ELSE 2

ErrorsOn(k) == { n \in DOMAIN errors : errors[n].line = k }
\* stage2 keeps a record per emitted instruction; assembler.py keeps bytes only.
RecordsOn(k) ==
  IF program = "stage2" THEN { n \in DOMAIN instructions : instructions[n].line = k } ELSE {}

\* The address field of the first record emitted for a line after k, or the
\* length of the byte stream when there is none (stage2).
NextInstructionAddress(k) ==
  LET after == { n \in DOMAIN instructions : instructions[n].line > k }
  IN IF after = {} THEN Len(get_machine_code(instructions))
     ELSE instructions[CHOOSE n \in after : \A m \in after : n <= m].address

\* The bytes assembler.py emits for the lines before k in a run that
\* succeeds: the opcode and one byte per operand token.
RECURSIVE EmittedBefore(_)
EmittedBefore(k) ==
  IF k <= 1 THEN 0
  ELSE EmittedBefore(k - 1)
       + (IF Code[lines[k - 1]] # <<>> /\ ~IsLabelLine(k - 1)
          THEN Len(Parts[lines[k - 1]]) ELSE 0)

\* The sum of the grammar widths of the instruction lines 1..k.
RECURSIVE GrammarBytes(_)
GrammarBytes(k) ==
  IF k = 0 THEN 0
  ELSE GrammarBytes(k - 1) + (IF IsInstructionLine(k) THEN GrammarWidth(Mnemonic(k)) ELSE 0)

\* The address the first pass has reached when it comes to line k.
RECURSIVE PassOneAddress(_)
PassOneAddress(k) ==
  IF k <= 1 THEN 0
  ELSE PassOneAddress(k - 1)
       + (IF ~IsInstructionLine(k - 1) THEN 0
          ELSE IF program = "stage2" THEN FirstPassWidth(upper(Parts[lines[k - 1]][1]))
          ELSE 1)

DeclaredOnce(k) ==
  \A j \in LineNumbers : (IsLabelLine(j) /\ DeclaredName(j) = DeclaredName(k)) => j = k
Redeclares(k) ==
  /\ WellFormedLabel(k)
  /\ \E j \in 1..(k - 1) : IsLabelLine(j) /\ DeclaredName(j) = DeclaredName(k)
FirstDeclaration(k) ==
  CHOOSE j \in 1..k : /\ IsLabelLine(j) /\ DeclaredName(j) = DeclaredName(k)
                      /\ \A h \in 1..(j - 1) : ~(IsLabelLine(h) /\ DeclaredName(h) = DeclaredName(k))

JumpTargetTooBig(k) ==
  /\ IsInstructionLine(k)
  /\ Mnemonic(k) \in {JMP, JZ, JNZ, CALL}
  /\ Len(Tokens(k)) = 2
  /\ \/ Tokens(k)[2] \in DOMAIN labels /\ labels[Tokens(k)[2]] > 255
     \/ Tokens(k)[2] \notin DOMAIN labels /\ isdigit(Tokens(k)[2])
          /\ int10(Tokens(k)[2]).val > 255

ImmediateOutOfRange(k) ==
  /\ IsInstructionLine(k)
  /\ Mnemonic(k) \in {LOAD, ADD, SUB, MUL, DIV, MOD}
  /\ Len(Tokens(k)) = 3
  /\ upper(Tokens(k)[2]) \in DOMAIN registers
  /\ int10(Tokens(k)[3]).ok
  /\ int10(Tokens(k)[3]).val \notin 0..255

DeclaredNames == { DeclaredName(j) : j \in { h \in LineNumbers : IsLabelLine(h) } }
\* Line k holds one of the errors of the taxonomy (section 7).
ErroneousLine(k) ==
  \/ IsLabelLine(k) /\ ~WellFormedLabel(k)
  \/ /\ IsInstructionLine(k)
     /\ \/ Mnemonic(k) \notin DOMAIN commands
        \/ /\ Mnemonic(k) \in {PUSH, POP}
           /\ Len(Tokens(k)) = 2 /\ upper(Tokens(k)[2]) \notin DOMAIN registers
        \/ /\ Mnemonic(k) \in {JMP, JZ, JNZ, CALL}
           /\ Len(Tokens(k)) = 2
           /\ Tokens(k)[2] \notin DeclaredNames /\ ~isdigit(Tokens(k)[2])
        \/ /\ Mnemonic(k) \in {LOAD, ADD, SUB, MUL, DIV, MOD}
           /\ Len(Tokens(k)) = 3
           /\ upper(Tokens(k)[2]) \in DOMAIN registers
           /\ upper(Tokens(k)[3]) \notin DOMAIN registers
           /\ ~int0(Tokens(k)[3]).ok
        \/ ImmediateOutOfRange(k)

ArityMismatch(k) ==
  /\ IsInstructionLine(k)
  /\ Mnemonic(k) \in DOMAIN commands
  /\ Len(Tokens(k)) - 1 # GrammarArity(Mnemonic(k))

\* Line k is a STORE of a register to a decimal address literal.
StoreLine(k) ==
  /\ IsInstructionLine(k)
  /\ Mnemonic(k) = STORE
  /\ Len(Tokens(k)) = 3
  /\ Tokens(k)[2] \in DOMAIN registers
  /\ isdigit(Tokens(k)[3])
StoreAddress(k) == int10(Tokens(k)[3]).val
StoreAddressTooBig(k) == StoreLine(k) /\ StoreAddress(k) > 65535
\* Line k holds separators only: nothing is left of it once the commas are
\* read as spaces.
OnlySeparators(k) == Code[lines[k]] # <<>> /\ ~IsLabelLine(k) /\ Tokens(k) = <<>>

\* Line k has a fault of some kind.
Faulty(k) ==
  \/ ErroneousLine(k) \/ Redeclares(k) \/ ArityMismatch(k) \/ JumpTargetTooBig(k)
  \/ StoreAddressTooBig(k) \/ OnlySeparators(k)
\* No line before k has a fault: pass 1 comes to line k with nothing gone
\* wrong before it.
FirstFault(k) == Faulty(k) /\ \A j \in 1..(k - 1) : ~Faulty(j)
\* Line k is the one faulty line of the source: no error on another line can
\* have ended a pass.
OnlyFault(k) == Faulty(k) /\ \A j \in LineNumbers \ {k} : ~Faulty(j)

(***************************************************************************)
(* C1                                                                      *)
(***************************************************************************)
\* C1: after a run that succeeds, the address the label table holds for a
\* label is the address of the first instruction emitted after the label's
\* line, or the length of the byte stream when none follows (in
\* assembler.py, the offset of that instruction's bytes in the output).
C1_LabelIsAddressOfNextInstruction ==
  (FreshRun /\ Succeeded) =>
    \A k \in LineNumbers :
      (WellFormedLabel(k) /\ DeclaredOnce(k) /\ DeclaredName(k) \in DOMAIN labels) =>
        labels[DeclaredName(k)] =
          (IF program = "stage2" THEN NextInstructionAddress(k) ELSE EmittedBefore(k))

(***************************************************************************)
(* C2                                                                      *)
(***************************************************************************)
START == <<"S","T","A","R","T">>
END == <<"E","N","D">>

\* C2: stage2 assembles the forward-reference program without errors, with
\* the label table START=0, END=15 and the 14 bytes
\* 01 00 05 01 01 0a 03 00 01 09 0f 08 00 10.
C2_ForwardReferenceScenario ==
  (program = "stage2" /\ lines = ForwardReference /\ FreshRun) =>
    /\ result = "returned"
    /\ errors = <<>>
    /\ labels = (START :> 0) @@ (END :> 15)
    /\ get_machine_code(instructions) = <<1, 0, 5, 1, 1, 10, 3, 0, 1, 9, 15, 8, 0, 16>>

\* The forward-reference program has been assembled by stage2.
C2_Witness ==
  /\ program = "stage2" /\ lines = ForwardReference /\ FreshRun
  /\ Len(instructions) = 6

(***************************************************************************)
(* C3                                                                      *)
(***************************************************************************)
\* C3: when every instruction line has a recognized mnemonic, the byte
\* stream is as long as the sum of the grammar widths of the lines'
\* mnemonics, whatever operands the lines carry.
C3_LengthIsSumOfWidths ==
  (FreshRun /\ Succeeded
     /\ \A k \in LineNumbers : IsInstructionLine(k) => Mnemonic(k) \in DOMAIN commands) =>
    Len(MachineCode) = GrammarBytes(Len(lines))

(***************************************************************************)
(* C4                                                                      *)
(***************************************************************************)
\* C4: a jump or call whose target is above 255 gets an error and no
\* instruction, and every element of the byte stream is in 0..255.  (The
\* first is asked of sources whose one faulty line it is, where no other
\* error can have ended a pass.)
C4_BytesFitOneByte ==
  /\ \A n \in DOMAIN MachineCode : MachineCode[n] \in 0..255
  /\ FreshRun =>
       \A k \in LineNumbers :
         (JumpTargetTooBig(k) /\ OnlyFault(k)) =>
           (ErrorsOn(k) # {} /\ RecordsOn(k) = {})

(***************************************************************************)
(* C5                                                                      *)
(***************************************************************************)
\* C5: a redefinition of a label gets exactly one duplicate-label error on
\* its line, the label keeps the address of its first definition, and the
\* lines further down are still scanned: their well-formed labels are
\* recorded and their errors reported.  (Asked of the first faulty line of
\* a source only, where no earlier error can have ended the pass.)
C5_DuplicateLabelReported ==
  FreshRun =>
    \A k \in LineNumbers :
      (Redeclares(k) /\ FirstFault(k)) =>
        /\ Cardinality(ErrorsOn(k)) = 1
        /\ \A n \in ErrorsOn(k) : errors[n].msg = "LabelAlreadyDefined"
        /\ DeclaredName(k) \in DOMAIN labels
        /\ labels[DeclaredName(k)] = PassOneAddress(FirstDeclaration(k))
        /\ \A m \in (k + 1)..Len(lines) :
             /\ WellFormedLabel(m) => DeclaredName(m) \in DOMAIN labels
             /\ ErroneousLine(m) => ErrorsOn(m) # {}

(***************************************************************************)
(* C6                                                                      *)
(***************************************************************************)
\* C6: a LOAD or ADD..MOD line whose immediate is outside 0..255 gets an
\* error, the run fails and no instruction is emitted for the line.  (Asked
\* of sources whose one faulty line it is.)
C6_ImmediateRangeEnforced ==
  FreshRun =>
    \A k \in LineNumbers :
      (ImmediateOutOfRange(k) /\ OnlyFault(k)) =>
        (ErrorsOn(k) # {} /\ ~Succeeded /\ RecordsOn(k) = {})

(***************************************************************************)
(* C7                                                                      *)
(***************************************************************************)
\* C7: a second assemble call of the same source on the same object leaves
\* the same bytes, label table, errors and warnings as the first.
C7_SecondRunSameAsFirst ==
  (Finished /\ reused /\ lines = snap.lines) =>
    /\ MachineCode = snap.code
    /\ labels = snap.labels
    /\ errors = snap.errors
    /\ warnings = snap.warnings

(***************************************************************************)
(* C8                                                                      *)
(***************************************************************************)
\* C8: every erroneous line of the source has an error recorded on its line
\* number when the run ends, however many erroneous lines precede it.
C8_EveryErroneousLineReported ==
  FreshRun => \A k \in LineNumbers : ErroneousLine(k) => ErrorsOn(k) # {}

(***************************************************************************)
(* C9                                                                      *)
(***************************************************************************)
\* C9: a run reports success exactly when the error list is empty at its end.
C9_SuccessIffNoErrors ==
  Finished => (Succeeded <=> errors = <<>>)

(***************************************************************************)
(* C10                                                                     *)
(***************************************************************************)
\* C10: a line with too few or too many operands for its mnemonic gets an
\* error and no instruction.  (Asked of sources whose one faulty line
\* it is.)
C10_ArityMismatchRejected ==
  FreshRun =>
    \A k \in LineNumbers :
      (ArityMismatch(k) /\ OnlyFault(k)) =>
        (ErrorsOn(k) # {} /\ ~Succeeded /\ RecordsOn(k) = {})

(***************************************************************************)
(* C11                                                                     *)
(***************************************************************************)
\* The bytes the run has put out for line k: in stage2 the opcode and the
\* operands of the record of the line, in assembler.py the bytes at the
\* place the line's opcode was appended.
BytesOf(k) ==
  IF program = "stage2"
  THEN IF RecordsOn(k) = {} THEN << >>
       ELSE LET rec == instructions[CHOOSE n \in RecordsOn(k) : TRUE]
            IN << rec.opcode >> \o rec.operands
  ELSE IF ~Succeeded THEN << >>
       ELSE SubSeq(instructions, EmittedBefore(k) + 1,
                   EmittedBefore(k) + Len(Parts[lines[k]]))

\* C11: STORE r a, a in 0..65535, is encoded as the four bytes 0x02, the
\* index of r, a mod 256, a div 256; an address above 65535 gets an error
\* and no bytes.  (Asked of sources with no fault on another line.)
C11_StoreEncodesWideAddress ==
  FreshRun =>
    \A k \in LineNumbers :
      (StoreLine(k) /\ \A j \in LineNumbers \ {k} : ~Faulty(j)) =>
        IF StoreAddress(k) <= 65535
        THEN /\ ErrorsOn(k) = {}
             /\ BytesOf(k) = << 2, registers[Tokens(k)[2]],
                                StoreAddress(k) % 256, StoreAddress(k) \div 256 >>
        ELSE ErrorsOn(k) # {} /\ BytesOf(k) = << >>

(***************************************************************************)
(* C12                                                                     *)
(***************************************************************************)
UnknownMnemonicLine(k) == IsInstructionLine(k) /\ Mnemonic(k) \notin DOMAIN commands
FooLine == <<"F","O","O"," ","A",","," ","1">>

\* C12: an instruction line whose first token is not a mnemonic has exactly
\* one error over the whole run, an unknown-command error on its line
\* number, and no instruction of its own; the one-line source FOO A, 1 ends
\* with exactly one error and an empty byte stream.
C12_UnknownMnemonicOneError ==
  FreshRun =>
    /\ \A k \in LineNumbers :
         UnknownMnemonicLine(k) =>
           /\ Cardinality(ErrorsOn(k)) = 1
           /\ \A n \in ErrorsOn(k) : errors[n].msg = "UnknownCommand"
           /\ RecordsOn(k) = {}
    /\ lines = << FooLine >> => (Len(errors) = 1 /\ MachineCode = << >>)

(***************************************************************************)
(* C13                                                                     *)
(***************************************************************************)
ValidLabelName(name) == isidentifier(name) /\ upper(name) \notin DOMAIN commands

\* C13: on a new object every key of the label table is an identifier that
\* is not a mnemonic, and a declaration whose name is not one gets a
\* label-name error on its line when the run ends.  (The error is asked of
\* the first faulty line of a source.)
C13_LabelKeysAreIdentifiers ==
  /\ ~reused => \A name \in DOMAIN labels : ValidLabelName(name)
  /\ FreshRun =>
       \A k \in LineNumbers :
         (IsLabelLine(k) /\ ~ValidLabelName(DeclaredName(k)) /\ FirstFault(k)) =>
           \E n \in ErrorsOn(k) : errors[n].msg = "BadLabelName"

(***************************************************************************)
(* C14                                                                     *)
(***************************************************************************)
\* The records before the n-th.
RecordsBefore(n) == SubSeq(instructions, 1, n - 1)

\* C14: in stage2, on a new object, the records form a gap-free chain at
\* every point of the run: the first has address 0, each next one has the
\* address of the one before plus 1 plus the number of its operands, and the
\* address of a record is the place of its opcode in the stream of
\* get_machine_code.
C14_RecordsFormChain ==
  (program = "stage2" /\ ~reused) =>
    /\ instructions # << >> => instructions[1].address = 0
    /\ \A n \in 1..(Len(instructions) - 1) :
         instructions[n + 1].address
           = instructions[n].address + 1 + Len(instructions[n].operands)
    /\ \A n \in DOMAIN instructions :
         /\ instructions[n].address = Len(get_machine_code(RecordsBefore(n)))
         /\ get_machine_code(instructions)[instructions[n].address + 1]
              = instructions[n].opcode

\* Pass 2 is under way on a new object, it has appended records with
\* operands before others, and it has rejected a line between two records.
C14_Witness ==
  /\ program = "stage2" /\ ~reused /\ pc = "second"
  /\ errors # << >>
  /\ \E n \in 1..(Len(instructions) - 1) :
       /\ instructions[n].operands # << >>
       /\ instructions[n + 1].line > instructions[n].line + 1

(***************************************************************************)
(* C15                                                                     *)
(***************************************************************************)
\* Pass 1 is at work on a line of the source.
InPassOne == pc = "first" /\ i <= Len(lines)

\* C15: the label table is written during pass 1 only: no step taken once
\* pass 1 has come to its end, in pass 2, at the return of the call or in an
\* output or statistics call, changes its keys or its values.
C15_LabelsWrittenInPassOneOnly ==
  [][labels' # labels => InPassOne]_vars

\* A call has succeeded with a label in the table that an instruction of
\* pass 2 has looked up.
C15_Witness ==
  /\ Finished /\ Succeeded /\ ~reused
  /\ labels # NoLabels
  /\ \E k \in LineNumbers :
       /\ IsInstructionLine(k) /\ Len(Tokens(k)) = 2
       /\ Tokens(k)[2] \in DOMAIN labels
       /\ BytesOf(k) = << commands[Mnemonic(k)], labels[Tokens(k)[2]] >>

(***************************************************************************)
(* C16                                                                     *)
(***************************************************************************)
\* Line k is not blank, not a comment and not a label declaration.
NonBlankNonLabel(k) == Code[lines[k]] # <<>> /\ ~IsLabelLine(k)
\* Line k has no ':' and still has a token once its comment is cut and its
\* commas are read as spaces.
HasStatement(k) ==
  /\ Code[lines[k]] # <<>>
  /\ ~Contains(Code[lines[k]], ":")
  /\ Tokens(k) # <<>>
\* The lines pass 2 has gone through.
SeenByPassTwo == IF pc = "second" THEN 1..(i - 1) ELSE LineNumbers

\* In stage2, on a new object, each line Counted that pass 2 has gone
\* through has one record and no error or one error and no record, no other
\* line has either; at the end the records and the errors are as many as
\* the lines Counted; the line numbers of the errors go strictly upwards.
OneOutcomeEach(Counted(_)) ==
  (program = "stage2" /\ ~reused /\ pc \in {"second", "done", "exited"}) =>
    /\ \A k \in LineNumbers :
         Cardinality(RecordsOn(k)) + Cardinality(ErrorsOn(k))
           = IF k \in SeenByPassTwo /\ Counted(k) THEN 1 ELSE 0
    /\ Finished =>
         Len(instructions) + Len(errors)
           = Cardinality({ k \in LineNumbers : Counted(k) })
    /\ \A n \in 1..(Len(errors) - 1) : errors[n].line < errors[n + 1].line

\* C16, as stated: every non-blank, non-comment, non-label line has exactly
\* one outcome in pass 2 of stage2, a record or an error.
C16_OneOutcomePerLine == OneOutcomeEach(NonBlankNonLabel)

\* C16, amended: every line that has no ':' and has a token left after the
\* comment is cut and the commas are read as spaces has exactly one outcome
\* in pass 2 of stage2, a record or an error; every other line has none.
C16_OneOutcomePerStatement == OneOutcomeEach(HasStatement)

\* A first call has ended with a record, an error, and a line of separators
\* that left neither.
C16_Witness ==
  /\ program = "stage2" /\ FreshRun
  /\ instructions # << >> /\ errors # << >>
  /\ \E k \in LineNumbers : OnlySeparators(k)

====
